---- MODULE Spec2Model ----
(***************************************************************************)
(* ApiCallLimiter (src/src/api/call-deduplicator.ts): a priority rate      *)
(* limiter driven by the JavaScript event loop.  A step of the model is    *)
(* one run-to-completion segment of JavaScript: a public call, one         *)
(* microtask (the continuation of an await), one timer or setImmediate     *)
(* callback, or the passage of time.                                       *)
(***************************************************************************)
EXTENDS Integers, Sequences, FiniteSets, TLC

\* ---- bounds of the model ------------------------------------------------
MaxRequests == 3
MaxReleaseCalls == 2
MaxReduceCalls == 1
StartTime == 100000
CallStep == 500
CallWindow == 500
Horizon == 1100
\* the rate controller on its own
RateReduceCalls == 3
RateHorizon == 3000
\* one long wait
LiveRequests == 2
LiveHorizon == 65100
\* slots held for more than a minute
StuckRequests == 4
StuckCallWindow == 1000
StuckReleaseFrom == 64500
StuckHorizon == 66100
\* the Locker
MaxCallers == 3
LockHorizon == 500

\* the ApiCallDeduplicator
MaxDedupCalls == 3
\* the Gate
MaxGateCalls == 4
\* the Readiness
MaxReadyCalls == 4
MaxReadySets == 2
\* the MemoryCache
MaxCloneFailures == 2
CacheHorizon == 500
CacheCleanups == 1

\* ---- constants of the program -------------------------------------------
ReductionDivisor == 10
DebounceMs == 1000
DefaultTimeoutMs == 60000
PollMs == 50
WindowMs == 1000
StuckMs == 65000

\* ---- inputs --------------------------------------------------------------
Rates == {1, 2}
PriorityInputs == {"high", "normal", "low"}
TimeoutInputs == {0, 10}
DurationInputs == {0, 500, 2000}
RateRates == {1, 2, 3, 8, 20}
RateDurationInputs == {-5, 0, 500, 2000}
LiveTimeoutInputs == {-5, 0, 10}
LivePriorityInputs == {""}
ArgPriorityInputs == {"", "high", "urgent"}
StuckTimeoutInputs == {10, 70000}
\* withLock(fn, timeoutMs): timeoutMs is optional
Undefined == -1
LockTimeoutInputs == {Undefined, 0, 10}
\* new Locker(maxQueueLength = Infinity)
Infinity == 1000
QueueLimits == {1, 2, Infinity}

\* request(key, task, { timeout }): '' is not a key; timeout is optional
DedupKeys == {"", "a", "b"}
DedupTimeoutInputs == {Undefined, 0, 10}
\* task() returns a value or a promise, or throws
TaskKinds == {"runs", "throws"}
\* new MemoryCache({ maxCacheSizeMB, maxItemAgeSeconds }), in bytes and ms
CacheSizes == {4, 5}
MaxItemAgeMilliseconds == 1000
\* add(key, data), set(key, data): '' is not a key; data by the byte length of
\* its JSON and by whether structuredClone accepts it
CacheKeys == {"", "a", "b", "c"}
DataSizes == {1, 2, 3, 6}
CleanupMs == 60000

MaxTime == StartTime + Horizon
LastCallTime == StartTime + CallWindow
Ids == 1..(IF MaxRequests >= StuckRequests THEN MaxRequests ELSE StuckRequests)
Null == 0
Callers == 1..MaxCallers

\* Callers act at the instants StartTime + k * CallStep.
CallInstant(t) == (t - StartTime) % CallStep = 0

VARIABLES
    now,                    \* Date.now()
    maxRequestsPerSecond,
    requestsPerSecond,
    reduceLimitTimeout,     \* deadline of the restoration timer, Null if none
    reduceLimitTimestamp,
    requestsHigh, requestsNormal, requestsLow,
    requestsRunning,        \* ids of the RequestRunning objects in the Set
    entry,                  \* id -> the RequestRunning object of that call
    isProcessing,
    activeLoops,            \* processQueue calls inside their try block
    loopWake,               \* deadline of the 50 ms sleep of processQueue, Null if none
    immediates,             \* pending setImmediate(() => processQueue())
    microtasks,             \* requestSlot calls whose await has been resolved
    promise,                \* id -> state of the promise awaited in requestSlot
    timeoutHandle,          \* id -> deadline of the request's timer, Null if none
    nextId,
    \* history
    lane,                   \* id -> lane the request was pushed to
    enqueuedAt,             \* id -> time of the requestSlot call, while it is suspended
    timeoutArg,             \* id -> options.timeoutMs of the call, while it is suspended
    priorityArg,            \* id -> options.priority of the call
    grants,                 \* id -> number of running entries created for it
    failed,                 \* id -> when requestSlot rejected with 'request timeout', or Null
    dequeueLog,             \* ids in the order processQueue shifted them
    runLog,                 \* ids in the order their running entries were created
    prunedSinceReduce,      \* a pruning pass ran since the last effective reduction
    lastReduce,             \* outcome of the step if it was a reduceLimitTemporary call
    rateAfterReduce,        \* requestsPerSecond right after the last effective reduction
    restoreAt,              \* deadline set by the last effective reduction
    reduceCalls,
    lastDuration,           \* durationMs of the last reduceLimitTemporary call
    stacked,                \* effective reductions since the last restoration
    releaseCalls,
    released                \* id -> number of times its release callback was called

\* Locker (src/unnamed/part_002)
VARIABLES
    maxQueueLength,
    lock,                   \* the caller whose promise `next` is this.lock, Null for
                            \* the resolved promise the Locker starts with
    queue,                  \* callers whose closure is in this.queue
    lockNext,               \* caller -> state of the promise `next` of its acquire
    lockTimer,              \* caller -> deadline of the timer of its acquire, Null if none
    lockPrev,               \* caller -> the promise its acquire returned (as for lock)
    lockPc,                 \* caller -> where its withLock call is
    lockArg,                \* caller -> timeoutMs of its withLock call
    lockCalledAt            \* caller -> when it called withLock

\* ApiCallDeduplicator (src/src/api/call-deduplicator.ts, lines 22-137)
VARIABLES
    requests,               \* this.requests: the set of [key, call] entries of the Map
    dedupCalls,             \* the calls created so far: key, state of the promise,
                            \* deadline of the timer, state of the task
    dedupLast               \* the last request(key, task): what it returned, whether
                            \* it invoked its task

\* Gate (src/unnamed/part_001); Door of memory-cache.class.ts is the same code
VARIABLES
    gateIsOpen,             \* _isOpen
    gateWaitingCount,       \* _waitingCount
    gatePendingPromise,     \* _pendingPromise: an index of gatePromises, or Null
    gatePromises,           \* the promises enterOrWait created: state of each
    gateCalls,              \* what each enterOrWait call returned: an index of
                            \* gatePromises, or Null for Promise.resolve()
    gateLast                \* the last call made on the gate, with its argument

\* Readiness (src/src/classes/readiness.class.ts)
VARIABLES
    readyIsReady,           \* _isReady
    readyPendingPromise,    \* _pendingPromise: an index of readyPromises, or Null
    readyPromises,          \* the promises isReady created: state of each
    readyCalls,             \* each isReady call: what it returned (as for gateCalls)
                            \* and how many setReady had taken effect before it
    readySetCount           \* number of setReady calls that took effect

\* MemoryCache (src/src/classes/memory-cache.class.ts)
VARIABLES
    store,                  \* this.store in insertion order: key, size, expireAt
    currentCacheSizeBytes,
    maxCacheSizeBytes,
    cleanupAt,              \* deadline of the cleanup timer
    cloneFailures           \* number of calls whose structuredClone threw

lockCall == <<lockArg, lockCalledAt>>
locker == <<maxQueueLength, lock, queue, lockNext, lockTimer, lockPrev, lockPc,
            lockCall>>

sched == <<requestsHigh, requestsNormal, requestsLow, requestsRunning,
           isProcessing, activeLoops, loopWake, immediates, microtasks, promise,
           dequeueLog, prunedSinceReduce>>
rate == <<requestsPerSecond, reduceLimitTimeout, reduceLimitTimestamp,
          rateAfterReduce, restoreAt, reduceCalls, lastDuration,
          stacked>>
reqs == <<nextId, lane, enqueuedAt, timeoutArg, priorityArg>>
\* What the operations of the limiter never write.
dedup == <<requests, dedupCalls, dedupLast>>
gate == <<gateIsOpen, gateWaitingCount, gatePendingPromise, gatePromises, gateCalls,
          gateLast>>
readiness == <<readyIsReady, readyPendingPromise, readyPromises, readyCalls,
               readySetCount>>
cache == <<store, currentCacheSizeBytes, maxCacheSizeBytes, cleanupAt,
           cloneFailures>>
utilities == <<dedup, gate, readiness, cache>>
outside == <<maxRequestsPerSecond, locker, utilities>>
\* The state of the limiter.
limiter == <<maxRequestsPerSecond, entry, timeoutHandle, grants, failed, runLog,
             lastReduce, releaseCalls, released, sched, rate, reqs>>
vars == <<now, outside, entry, timeoutHandle, grants, failed, runLog,
          lastReduce, releaseCalls, released, sched, rate, reqs>>

Max(a, b) == IF a >= b THEN a ELSE b
Min(a, b) == IF a <= b THEN a ELSE b

\* ---- constructor ----------------------------------------------------------
ReductionNumber(n) == Max(1, n \div ReductionDivisor)

\* The state after new Locker(n), n in limits.
LockerInit(limits) ==
    /\ maxQueueLength \in limits
    /\ lock = Null
    /\ queue = << >>
    /\ lockNext = [c \in Callers |-> "none"]
    /\ lockTimer = [c \in Callers |-> Null]
    /\ lockPrev = [c \in Callers |-> Null]
    /\ lockPc = [c \in Callers |-> "idle"]
    /\ lockArg = [c \in Callers |-> Undefined]
    /\ lockCalledAt = [c \in Callers |-> 0]

\* The state after new ApiCallLimiter({ requestsPerSecond: n }), n in rates.
LimiterInit(rates) ==
    /\ now = StartTime
    /\ maxRequestsPerSecond \in rates
    /\ requestsPerSecond = maxRequestsPerSecond
    /\ reduceLimitTimeout = Null
    /\ reduceLimitTimestamp = 0
    /\ requestsHigh = << >> /\ requestsNormal = << >> /\ requestsLow = << >>
    /\ requestsRunning = {}
    /\ entry = [i \in Ids |-> [startedAt |-> Null, endedAt |-> Null]]
    /\ isProcessing = FALSE
    /\ activeLoops = 0
    /\ loopWake = Null
    /\ immediates = 0
    /\ microtasks = << >>
    /\ promise = [i \in Ids |-> "none"]
    /\ timeoutHandle = [i \in Ids |-> Null]
    /\ nextId = 1
    /\ lane = [i \in Ids |-> "none"]
    /\ enqueuedAt = [i \in Ids |-> 0]
    /\ timeoutArg = [i \in Ids |-> 0]
    /\ priorityArg = [i \in Ids |-> "none"]
    /\ grants = [i \in Ids |-> 0]
    /\ failed = [i \in Ids |-> Null]
    /\ dequeueLog = << >>
    /\ runLog = << >>
    /\ prunedSinceReduce = TRUE
    /\ lastReduce = "none"
    /\ rateAfterReduce = 0
    /\ restoreAt = 0
    /\ reduceCalls = 0
    /\ lastDuration = 0
    /\ stacked = 0
    /\ releaseCalls = 0
    /\ released = [i \in Ids |-> 0]

\* The state after new ApiCallDeduplicator().
DedupInit ==
    /\ requests = {}
    /\ dedupCalls = << >>
    /\ dedupLast = [returned |-> Null, invoked |-> FALSE]

\* The state after new Gate().
GateInit ==
    /\ gateIsOpen = FALSE
    /\ gateWaitingCount = 0
    /\ gatePendingPromise = Null
    /\ gatePromises = << >>
    /\ gateCalls = << >>
    /\ gateLast = "new"

\* The state after new Readiness().
ReadinessInit ==
    /\ readyIsReady = FALSE
    /\ readyPendingPromise = Null
    /\ readyPromises = << >>
    /\ readyCalls = << >>
    /\ readySetCount = 0

\* The state after new MemoryCache(...) with maxCacheSizeBytes in sizes: the
\* first cleanup has run on the empty store and scheduled the next one.
CacheInit(sizes) ==
    /\ store = << >>
    /\ currentCacheSizeBytes = 0
    /\ maxCacheSizeBytes \in sizes
    /\ cleanupAt = StartTime + CleanupMs
    /\ cloneFailures = 0

\* The utilities, not used.
UtilitiesInit == DedupInit /\ GateInit /\ ReadinessInit /\ CacheInit({Infinity})

\* A limiter, and a Locker that is not used.
InitWith(rates) == LimiterInit(rates) /\ LockerInit({Infinity}) /\ UtilitiesInit

Init == InitWith(Rates)

\* ---- the Promise awaited in requestSlot (lines 255-269) --------------------
\* A resolve() that also takes effect on a promise that is already settled.
ResolveSettled(s, id) ==
    [s EXCEPT !.promise[id] = "fulfilled", !.microtasks = Append(@, id)]

\* resolve() and reject() settle a pending promise and are no-ops afterwards.
\* Settling with resolve queues the continuation of the await as a microtask.
Resolve(s, id) ==
    IF s.promise[id] = "pending"
    THEN [s EXCEPT !.promise[id] = "fulfilled",
                   !.microtasks = Append(@, id)]
    ELSE s

Reject(p, id) ==
    IF p[id] = "pending" THEN [p EXCEPT ![id] = "rejected"] ELSE p

\* ---- getAvailableSlots (lines 347-369) ------------------------------------
\* A cleanup without the rule for stuck calls.
PrunableReleasedOnly(e, t) == e.endedAt # Null /\ e.endedAt < t - WindowMs

\* endedAt && endedAt < oneSecondAgo; startedAt && startedAt < oneMinuteAgo
Prunable(e, t) ==
    \/ (e.endedAt # Null /\ e.endedAt < t - WindowMs)
    \/ (e.startedAt # Null /\ e.startedAt < t - StuckMs)

PruneRunning(running, ent, t) == {r \in running : ~Prunable(ent[r], t)}

GetAvailableSlots(running, ent, rps, t) ==
    Max(0, rps - Cardinality(PruneRunning(running, ent, t)))

\* ---- processQueue (lines 293-340) -----------------------------------------
\* The part of the limiter that processQueue reads and writes, as a record.
Cur ==
    [high |-> requestsHigh, normal |-> requestsNormal, low |-> requestsLow,
     running |-> requestsRunning, promise |-> promise, microtasks |-> microtasks,
     isProcessing |-> isProcessing, activeLoops |-> activeLoops,
     loopWake |-> loopWake, immediates |-> immediates,
     dequeueLog |-> dequeueLog, pruned |-> prunedSinceReduce]

QueueLength(s) == Len(s.high) + Len(s.normal) + Len(s.low)

\* A scheduler that serves the low lane first.
ShiftNextLowFirst(s) ==
    IF Len(s.low) > 0
    THEN [id |-> Head(s.low), s |-> [s EXCEPT !.low = Tail(@)]]
    ELSE IF Len(s.normal) > 0
    THEN [id |-> Head(s.normal), s |-> [s EXCEPT !.normal = Tail(@)]]
    ELSE IF Len(s.high) > 0
    THEN [id |-> Head(s.high), s |-> [s EXCEPT !.high = Tail(@)]]
    ELSE [id |-> Null, s |-> s]

\* requestsHigh.shift() || requestsNormal.shift() || requestsLow.shift()
ShiftNext(s) ==
    IF Len(s.high) > 0
    THEN [id |-> Head(s.high), s |-> [s EXCEPT !.high = Tail(@)]]
    ELSE IF Len(s.normal) > 0
    THEN [id |-> Head(s.normal), s |-> [s EXCEPT !.normal = Tail(@)]]
    ELSE IF Len(s.low) > 0
    THEN [id |-> Head(s.low), s |-> [s EXCEPT !.low = Tail(@)]]
    ELSE [id |-> Null, s |-> s]

\* for (let i = 0; i < availableSlots; i++) { shift; if (!request) break; resolve }
RECURSIVE GrantBatch(_, _, _)
GrantBatch(s, i, availableSlots) ==
    IF i >= availableSlots THEN s
    ELSE LET n == ShiftNext(s) IN
         IF n.id = Null THEN s
         ELSE GrantBatch(
                Resolve([n.s EXCEPT !.dequeueLog = Append(@, n.id)], n.id),
                i + 1, availableSlots)

\* A while loop that sleeps after each batch.
WhileLoopOneBatch(s, ent, rps, t) ==
    IF QueueLength(s) = 0 THEN s
    ELSE LET availableSlots == GetAvailableSlots(s.running, ent, rps, t)
             p == [s EXCEPT !.running = PruneRunning(@, ent, t), !.pruned = TRUE]
             g == GrantBatch(p, 0, availableSlots)
         IN  IF QueueLength(g) = 0 THEN g ELSE [g EXCEPT !.loopWake = t + PollMs]

\* The while loop, run until it sleeps (loopWake set) or the lanes are empty.
RECURSIVE WhileLoop(_, _, _, _)
WhileLoop(s, ent, rps, t) ==
    IF QueueLength(s) = 0 THEN s
    ELSE LET availableSlots == GetAvailableSlots(s.running, ent, rps, t)
             p == [s EXCEPT !.running = PruneRunning(@, ent, t), !.pruned = TRUE]
         IN  IF availableSlots = 0
             THEN [p EXCEPT !.loopWake = t + PollMs]
             ELSE WhileLoop(GrantBatch(p, 0, availableSlots), ent, rps, t)

\* A finally block that leaves the flag set.
LoopBodyKeepsFlag(s, ent, rps, t) ==
    LET w == WhileLoop([s EXCEPT !.loopWake = Null], ent, rps, t) IN
    IF w.loopWake # Null THEN w
    ELSE [w EXCEPT !.activeLoops = @ - 1, !.immediates = @ + 1]

\* finally { isProcessing = false; setImmediate(() => this.processQueue()) }
LoopBody(s, ent, rps, t) ==
    LET w == WhileLoop([s EXCEPT !.loopWake = Null], ent, rps, t) IN
    IF w.loopWake # Null THEN w
    ELSE [w EXCEPT !.isProcessing = FALSE, !.activeLoops = @ - 1,
                   !.immediates = @ + 1]

\* A processQueue without the isProcessing check of lines 300-302.
ProcessQueueNoGuard(s, ent, rps, t) ==
    IF QueueLength(s) = 0 THEN s
    ELSE LoopBody([s EXCEPT !.isProcessing = TRUE, !.activeLoops = @ + 1], ent, rps, t)

ProcessQueue(s, ent, rps, t) ==
    IF QueueLength(s) = 0 THEN s
    ELSE IF s.isProcessing THEN s
    ELSE LoopBody([s EXCEPT !.isProcessing = TRUE, !.activeLoops = @ + 1], ent, rps, t)

Store(s) ==
    /\ requestsHigh' = s.high
    /\ requestsNormal' = s.normal
    /\ requestsLow' = s.low
    /\ requestsRunning' = s.running
    /\ promise' = s.promise
    /\ microtasks' = s.microtasks
    /\ isProcessing' = s.isProcessing
    /\ activeLoops' = s.activeLoops
    /\ loopWake' = s.loopWake
    /\ immediates' = s.immediates
    /\ dequeueLog' = s.dequeueLog
    /\ prunedSinceReduce' = s.pruned

\* ---- requestSlot (lines 248-284) ------------------------------------------
\* options.priority || 'normal'; "" stands for an omitted priority
PriorityOf(p) == IF p = "" THEN "normal" ELSE p

\* A requestSlot for which an omitted or 0 timeoutMs means twice the default.
EffTimeoutLong(tm) == IF tm # 0 THEN Max(0, tm) ELSE 2 * DefaultTimeoutMs

\* options.timeoutMs ? Math.max(0, options.timeoutMs) : 60_000; 0 also stands
\* for an omitted timeoutMs
EffTimeout(tm) == IF tm # 0 THEN Max(0, tm) ELSE DefaultTimeoutMs

\* setTimeout(callback, delay): Node.js sets a delay below 1 to 1
TimerDelay(d) == IF d < 1 THEN 1 ELSE d

\* A requestSlot that puts the request at the head of its lane (unshift).
PushFront(s, p, id) ==
    IF p = "high" THEN [s EXCEPT !.high = <<id>> \o @]
    ELSE IF p = "normal" THEN [s EXCEPT !.normal = <<id>> \o @]
    ELSE [s EXCEPT !.low = <<id>> \o @]

\* if (priority === 'high') ... else if (priority === 'normal') ... else ...
Push(s, p, id) ==
    IF p = "high" THEN [s EXCEPT !.high = Append(@, id)]
    ELSE IF p = "normal" THEN [s EXCEPT !.normal = Append(@, id)]
    ELSE [s EXCEPT !.low = Append(@, id)]

LaneOf(p) == IF p = "high" THEN "high" ELSE IF p = "normal" THEN "normal" ELSE "low"

\* The synchronous part of requestSlot: the executor of the promise pushes the
\* request, calls processQueue() (which runs up to its first await) and arms the
\* timeout; requestSlot then suspends at its await.
RequestSlot(p, tm) ==
    /\ nextId \in Ids
    /\ CallInstant(now)
    /\ LET id == nextId
           pushed == Push([Cur EXCEPT !.promise[id] = "pending"], PriorityOf(p), id)
       IN  /\ Store(ProcessQueue(pushed, entry, requestsPerSecond, now))
           /\ timeoutHandle' = [timeoutHandle EXCEPT ![id] = now + TimerDelay(EffTimeout(tm))]
           /\ lane' = [lane EXCEPT ![id] = LaneOf(PriorityOf(p))]
           /\ enqueuedAt' = [enqueuedAt EXCEPT ![id] = now]
           /\ timeoutArg' = [timeoutArg EXCEPT ![id] = tm]
           /\ priorityArg' = [priorityArg EXCEPT ![id] = p]
           /\ nextId' = id + 1
    /\ lastReduce' = "none"
    /\ UNCHANGED <<now, outside, entry, grants, failed, runLog,
                   releaseCalls, released, rate>>

\* A continuation that does not clear the timeout.
ContinuationKeepsTimer ==
    /\ microtasks # << >>
    /\ LET id == Head(microtasks) IN
        /\ microtasks' = Tail(microtasks)
        /\ entry' = [entry EXCEPT ![id] = [startedAt |-> now, endedAt |-> Null]]
        /\ requestsRunning' = requestsRunning \cup {id}
        /\ grants' = [grants EXCEPT ![id] = @ + 1]
        /\ runLog' = Append(runLog, id)
        /\ enqueuedAt' = [enqueuedAt EXCEPT ![id] = 0]
        /\ timeoutArg' = [timeoutArg EXCEPT ![id] = 0]
    /\ lastReduce' = "none"
    /\ UNCHANGED <<now, outside, failed, releaseCalls, released, rate, timeoutHandle,
                   nextId, lane, priorityArg,
                   requestsHigh, requestsNormal, requestsLow, isProcessing,
                   activeLoops, loopWake, immediates, promise, dequeueLog,
                   prunedSinceReduce>>

\* The continuation of the await (lines 271-284), run as a microtask: clear the
\* timeout, add the running entry, return the release callback.
Continuation ==
    /\ microtasks # << >>
    /\ LET id == Head(microtasks) IN
        /\ microtasks' = Tail(microtasks)
        /\ timeoutHandle' = [timeoutHandle EXCEPT ![id] = Null]
        /\ entry' = [entry EXCEPT ![id] = [startedAt |-> now, endedAt |-> Null]]
        /\ requestsRunning' = requestsRunning \cup {id}
        /\ grants' = [grants EXCEPT ![id] = @ + 1]
        /\ runLog' = Append(runLog, id)
        /\ enqueuedAt' = [enqueuedAt EXCEPT ![id] = 0]
        /\ timeoutArg' = [timeoutArg EXCEPT ![id] = 0]
    /\ lastReduce' = "none"
    /\ UNCHANGED <<now, outside, failed, releaseCalls, released, rate,
                   nextId, lane, priorityArg,
                   requestsHigh, requestsNormal, requestsLow, isProcessing,
                   activeLoops, loopWake,
                   immediates, promise, dequeueLog, prunedSinceReduce>>

\* The timer of line 266 fires: reject(new Error('request timeout')).
TimeoutFire(id) ==
    /\ microtasks = << >>
    /\ timeoutHandle[id] # Null
    /\ timeoutHandle[id] <= now
    /\ timeoutHandle' = [timeoutHandle EXCEPT ![id] = Null]
    /\ promise' = Reject(promise, id)
    /\ failed' = [failed EXCEPT ![id] = IF promise[id] = "pending" THEN now ELSE @]
    /\ enqueuedAt' = [enqueuedAt EXCEPT ![id] = 0]
    /\ timeoutArg' = [timeoutArg EXCEPT ![id] = 0]
    /\ lastReduce' = "none"
    /\ UNCHANGED <<now, outside, entry, grants, runLog, releaseCalls,
                   released, rate, nextId, lane, priorityArg,
                   requestsHigh, requestsNormal, requestsLow, requestsRunning,
                   isProcessing, activeLoops, loopWake, immediates, microtasks,
                   dequeueLog,
                   prunedSinceReduce>>

\* A release callback that also takes its entry out of the running set.
ReleaseRemoves(id) ==
    /\ grants[id] > 0
    /\ releaseCalls < MaxReleaseCalls
    /\ CallInstant(now)
    /\ entry' = [entry EXCEPT ![id].endedAt = now]
    /\ released' = [released EXCEPT ![id] = @ + 1]
    /\ releaseCalls' = releaseCalls + 1
    /\ lastReduce' = "none"
    /\ requestsRunning' = requestsRunning \ {id}
    /\ UNCHANGED <<now, outside, timeoutHandle, grants, failed, runLog, rate, reqs,
                   requestsHigh, requestsNormal, requestsLow, isProcessing,
                   activeLoops, loopWake, immediates, microtasks, promise,
                   dequeueLog, prunedSinceReduce>>

\* The release callback returned by requestSlot (lines 280-283).
Release(id) ==
    /\ grants[id] > 0
    /\ releaseCalls < MaxReleaseCalls
    /\ CallInstant(now)
    /\ entry' = [entry EXCEPT ![id].endedAt = now]
    /\ released' = [released EXCEPT ![id] = @ + 1]
    /\ releaseCalls' = releaseCalls + 1
    /\ lastReduce' = "none"
    /\ UNCHANGED <<now, outside, timeoutHandle, grants, failed, runLog,
                   sched, rate, reqs>>

\* ---- processQueue resumed -------------------------------------------------
\* The 50 ms sleep of line 316 ends: continue with the while loop.
PollWake ==
    /\ microtasks = << >>
    /\ loopWake # Null
    /\ loopWake <= now
    /\ Store(LoopBody(Cur, entry, requestsPerSecond, now))
    /\ lastReduce' = "none"
    /\ UNCHANGED <<now, outside, entry, timeoutHandle, grants, failed,
                   runLog, releaseCalls, released, rate, reqs>>

\* The setImmediate callback of line 338 runs: processQueue().
Immediate ==
    /\ microtasks = << >>
    /\ immediates > 0
    /\ Store(ProcessQueue([Cur EXCEPT !.immediates = @ - 1], entry, requestsPerSecond, now))
    /\ lastReduce' = "none"
    /\ UNCHANGED <<now, outside, entry, timeoutHandle, grants, failed,
                   runLog, releaseCalls, released, rate, reqs>>

\* ---- reduceLimitTemporary (lines 212-238) ---------------------------------
\* A reduction that starts from maxRequestsPerSecond.
ReducedRateFromMax(rps, maxRps) == Max(1, maxRps - ReductionNumber(maxRps))

\* A reduction with no floor at 1.
ReducedRateNoFloor(rps, maxRps) == rps - ReductionNumber(maxRps)

\* Math.max(1, this.requestsPerSecond - this.reductionNumber)
ReducedRate(rps, maxRps) == Max(1, rps - ReductionNumber(maxRps))

\* No debounce window.
NeverDebounced(t, last) == FALSE

\* A debounce window of half the length.
DebouncedShortWindow(t, last) == 2 * (t - last) < DebounceMs

\* if (timeSinceLastReduction < 1_000) return;
Debounced(t, last) == t - last < DebounceMs

\* A validation that lets a duration of 0 through.
InvalidDurationNegative(d) == d < 0

\* if (durationMs <= 0) throw new Error('durationMs must be > 0')
InvalidDuration(d) == d <= 0

ReduceLimitTemporary(d) ==
    /\ CallInstant(now)
    /\ reduceCalls' = reduceCalls + 1
    /\ lastDuration' = d
    /\ IF InvalidDuration(d)
       THEN /\ lastReduce' = "error"
            /\ UNCHANGED <<requestsPerSecond, reduceLimitTimeout, reduceLimitTimestamp,
                           rateAfterReduce, restoreAt, prunedSinceReduce, stacked>>
       ELSE IF Debounced(now, reduceLimitTimestamp)
       THEN /\ lastReduce' = "skipped"
            /\ UNCHANGED <<requestsPerSecond, reduceLimitTimeout, reduceLimitTimestamp,
                           rateAfterReduce, restoreAt, prunedSinceReduce, stacked>>
       ELSE /\ lastReduce' = "applied"
            /\ reduceLimitTimestamp' = now
            /\ reduceLimitTimeout' = now + TimerDelay(d)
            /\ requestsPerSecond' = ReducedRate(requestsPerSecond, maxRequestsPerSecond)
            /\ rateAfterReduce' = requestsPerSecond'
            /\ restoreAt' = now + TimerDelay(d)
            /\ stacked' = stacked + 1
            /\ prunedSinceReduce' =
                  IF requestsPerSecond' < requestsPerSecond THEN FALSE
                  ELSE prunedSinceReduce
    /\ UNCHANGED <<now, outside, entry, timeoutHandle, grants, failed,
                   runLog, releaseCalls, released, reqs,
                   requestsHigh, requestsNormal, requestsLow, requestsRunning,
                   isProcessing, activeLoops, loopWake, immediates, microtasks,
                   promise, dequeueLog>>

\* A restoration that leaves the rate as it is.
RestoredRateKept(rps, maxRps) == rps

\* A restoration that undoes one reduction.
RestoredRateOneStep(rps, maxRps) == Min(maxRps, rps + ReductionNumber(maxRps))

\* The restoration timer of line 230 fires: requestsPerSecond = maxRequestsPerSecond.
RestoredRate(rps, maxRps) == maxRps

RestoreFire ==
    /\ microtasks = << >>
    /\ reduceLimitTimeout # Null
    /\ reduceLimitTimeout <= now
    /\ requestsPerSecond' = RestoredRate(requestsPerSecond, maxRequestsPerSecond)
    /\ reduceLimitTimeout' = Null
    /\ stacked' = 0
    /\ lastReduce' = "none"
    /\ UNCHANGED <<now, outside, entry, timeoutHandle, grants, failed,
                   runLog, releaseCalls, released, sched, reqs,
                   reduceLimitTimestamp, rateAfterReduce, restoreAt, reduceCalls,
                   lastDuration>>

\* ---- time -----------------------------------------------------------------
\* Deadlines of the timers that are armed.
Deadlines ==
    {timeoutHandle[i] : i \in {j \in Ids : timeoutHandle[j] # Null}}
    \cup (IF loopWake # Null THEN {loopWake} ELSE {})
    \cup (IF reduceLimitTimeout # Null THEN {reduceLimitTimeout} ELSE {})

\* Time passes while the event loop is idle: to the next deadline, or, while
\* callers may still act, to the next call instant if no deadline comes first.
\* A timer fires at its deadline.
TickTo(maxTime, lastCall) ==
    /\ microtasks = << >>
    /\ immediates = 0
    /\ \A t \in Deadlines : t > now
    /\ \E t \in (IF now < lastCall THEN {now + CallStep} ELSE {}) \cup Deadlines :
          /\ t <= maxTime
          /\ \A u \in Deadlines : t <= u
          /\ now' = t
    /\ lastReduce' = "none"
    /\ UNCHANGED <<outside, entry, timeoutHandle, grants, failed, runLog,
                   releaseCalls, released, sched, rate, reqs>>

Tick == TickTo(MaxTime, LastCallTime)

\* ---- the scheduler, at a constant rate -----------------------------------
Next ==
    \/ \E p \in PriorityInputs, tm \in TimeoutInputs :
          now <= LastCallTime /\ nextId <= MaxRequests /\ RequestSlot(p, tm)
    \/ Continuation
    \/ \E id \in Ids : TimeoutFire(id)
    \/ \E id \in Ids : now <= LastCallTime /\ Release(id)
    \/ PollWake
    \/ Immediate
    \/ Tick

Spec == Init /\ [][Next]_vars

\* ---- the scheduler with rate reductions ----------------------------------
NextFull ==
    \/ Next
    \/ \E d \in DurationInputs :
          now <= LastCallTime /\ reduceCalls < MaxReduceCalls /\ ReduceLimitTemporary(d)
    \/ RestoreFire

SpecFull == Init /\ [][NextFull]_vars

\* ---- the rate controller on its own --------------------------------------
TickRate == TickTo(StartTime + RateHorizon, StartTime + RateHorizon)

NextRate ==
    \/ \E d \in RateDurationInputs :
          reduceCalls < RateReduceCalls /\ ReduceLimitTemporary(d)
    \/ RestoreFire
    \/ TickRate

InitRate == InitWith(RateRates)

SpecRate == InitRate /\ [][NextRate]_vars

\* ---- waiting for a slot, with the timers and the loop scheduled fairly ----
\* The callers act at StartTime only, with the default priority; the event loop
\* then runs every callback that is due.
TickLive == TickTo(StartTime + LiveHorizon, StartTime)

NextLive ==
    \/ \E p \in LivePriorityInputs, tm \in LiveTimeoutInputs :
          now = StartTime /\ nextId <= LiveRequests /\ RequestSlot(p, tm)
    \/ Continuation
    \/ \E id \in Ids : TimeoutFire(id)
    \/ PollWake
    \/ Immediate
    \/ TickLive

SpecLive ==
    /\ Init /\ [][NextLive]_vars
    /\ WF_vars(Continuation)
    /\ \A id \in Ids : WF_vars(TimeoutFire(id))
    /\ WF_vars(PollWake)
    /\ WF_vars(Immediate)
    /\ WF_vars(TickLive)

\* ---- the scheduler called with any string as priority --------------------
NextArgs ==
    \/ \E p \in ArgPriorityInputs, tm \in TimeoutInputs :
          now <= LastCallTime /\ nextId <= MaxRequests /\ RequestSlot(p, tm)
    \/ Continuation
    \/ \E id \in Ids : TimeoutFire(id)
    \/ PollWake
    \/ Immediate
    \/ Tick

SpecArgs == Init /\ [][NextArgs]_vars

\* ---- slots held for more than a minute ------------------------------------
\* The callers ask for their slots in the first second and release them, if they
\* do, more than a minute later.
TickStuck == TickTo(StartTime + StuckHorizon, StartTime + StuckHorizon)

NextStuck ==
    \/ \E tm \in StuckTimeoutInputs :
          /\ now <= StartTime + StuckCallWindow
          /\ nextId <= StuckRequests
          /\ RequestSlot("", tm)
    \/ Continuation
    \/ \E id \in Ids : TimeoutFire(id)
    \/ \E id \in Ids : now >= StartTime + StuckReleaseFrom /\ Release(id)
    \/ PollWake
    \/ Immediate
    \/ TickStuck

SpecStuck == Init /\ [][NextStuck]_vars

\* ---- Locker (src/unnamed/part_002) ----------------------------------------
\* The state of the promise a withLock call awaits: the one acquire returned.
PrevState(c) == IF lockPrev[c] = Null THEN "fulfilled" ELSE lockNext[lockPrev[c]]

\* The continuation of an await runs before any timer and before time passes.
LockerMicrotasks == {c \in Callers : lockPc[c] = "acquiring" /\ PrevState(c) # "pending"}

\* withLock up to its await: acquire(timeoutMs) (lines 39-60).
WithLock(c, tm) ==
    /\ lockPc[c] = "idle"
    /\ IF Len(queue) >= maxQueueLength
       THEN /\ lockPc' = [lockPc EXCEPT ![c] = "full"]
            /\ UNCHANGED <<lock, queue, lockNext, lockTimer, lockPrev>>
       ELSE /\ lockNext' = [lockNext EXCEPT ![c] = "pending"]
            /\ lockTimer' = [lockTimer EXCEPT ![c] =
                                IF tm # Undefined THEN now + TimerDelay(tm) ELSE Null]
            /\ lockPrev' = [lockPrev EXCEPT ![c] = lock]
            /\ lock' = c
            /\ queue' = Append(queue, c)
            /\ lockPc' = [lockPc EXCEPT ![c] = "acquiring"]
    /\ lockArg' = [lockArg EXCEPT ![c] = tm]
    /\ lockCalledAt' = [lockCalledAt EXCEPT ![c] = now]
    /\ UNCHANGED <<now, maxQueueLength, limiter, utilities>>

\* The await of line 26 continues: fn starts, or withLock throws what the
\* awaited promise was rejected with.
LockerResume(c) ==
    /\ c \in LockerMicrotasks
    /\ lockPc' = [lockPc EXCEPT ![c] =
                     IF PrevState(c) = "fulfilled" THEN "critical" ELSE "timeout"]
    \* the arguments of a call that got the lock are not looked at again
    /\ lockArg' = IF PrevState(c) = "fulfilled"
                  THEN [lockArg EXCEPT ![c] = Undefined] ELSE lockArg
    /\ lockCalledAt' = IF PrevState(c) = "fulfilled"
                       THEN [lockCalledAt EXCEPT ![c] = 0] ELSE lockCalledAt
    /\ UNCHANGED <<now, maxQueueLength, lock, queue, lockNext, lockTimer, lockPrev,
                   limiter, utilities>>

\* fn has returned or thrown: finally { this.release() } (lines 65-72).
LockerRelease(c) ==
    /\ lockPc[c] = "critical"
    /\ lockPc' = [lockPc EXCEPT ![c] = "done"]
    /\ IF queue # << >>
       THEN /\ queue' = Tail(queue)
            /\ lockTimer' = [lockTimer EXCEPT ![Head(queue)] = Null]
            /\ lockNext' = [lockNext EXCEPT ![Head(queue)] =
                               IF @ = "pending" THEN "fulfilled" ELSE @]
            /\ UNCHANGED lock
       ELSE /\ lock' = Null
            /\ UNCHANGED <<queue, lockTimer, lockNext>>
    /\ UNCHANGED <<now, maxQueueLength, lockPrev, lockCall, limiter, utilities>>

\* A timer that resolves the promise.
TimerSettleResolves(st) == IF st = "pending" THEN "fulfilled" ELSE st

\* reject(new Error('Locker acquire timeout')) (lines 48-50)
TimerSettle(st) == IF st = "pending" THEN "rejected" ELSE st

LockerTimeout(c) ==
    /\ LockerMicrotasks = {}
    /\ lockTimer[c] # Null
    /\ lockTimer[c] <= now
    /\ lockTimer' = [lockTimer EXCEPT ![c] = Null]
    /\ lockNext' = [lockNext EXCEPT ![c] = TimerSettle(@)]
    /\ UNCHANGED <<now, maxQueueLength, lock, queue, lockPrev, lockPc, lockCall,
                   limiter, utilities>>

LockerDeadlines == {lockTimer[c] : c \in {d \in Callers : lockTimer[d] # Null}}

\* Time passes while the event loop is idle; a timer fires at its deadline.
LockerTick ==
    /\ LockerMicrotasks = {}
    /\ \A t \in LockerDeadlines : t > now
    /\ \E t \in (IF now < StartTime + LockHorizon THEN {now + CallStep} ELSE {})
                    \cup LockerDeadlines :
          /\ \A u \in LockerDeadlines : t <= u
          /\ now' = t
    /\ UNCHANGED <<locker, limiter, utilities>>

NextLocker ==
    \/ \E c \in Callers, tm \in LockTimeoutInputs : WithLock(c, tm)
    \/ \E c \in Callers : LockerResume(c)
    \/ \E c \in Callers : LockerRelease(c)
    \/ \E c \in Callers : LockerTimeout(c)
    \/ LockerTick

\* A Locker, and a limiter that is not used.
InitLocker == LimiterInit({1}) /\ LockerInit(QueueLimits) /\ UtilitiesInit

SpecLocker == InitLocker /\ [][NextLocker]_vars

\* ---- ApiCallDeduplicator (lines 22-137 of call-deduplicator.ts) ------------
notDedup == <<limiter, locker, gate, readiness, cache>>

CallIds == 1..Len(dedupCalls)

\* this.requests.has(key), this.requests.get(key)
RequestsHas(k) == \E r \in requests : r.key = k
RequestsGet(k) == (CHOOSE r \in requests : r.key = k).call
\* this.requests.delete(key)
RequestsDelete(k) == {r \in requests : r.key # k}

\* The callbacks of .then(resolve).catch(reject).finally(...) run as
\* microtasks, before any timer and before time passes.
DedupMicrotasks ==
    {c \in CallIds : dedupCalls[c].task \in {"fulfilled", "rejected", "finally"}}

\* timeoutRequest (lines 122-136): the deadline of the timer, Null for none.
TimeoutRequest(tm) == IF tm = Undefined \/ tm <= 0 THEN Null ELSE now + TimerDelay(tm)

\* An entry of the key is shared (lines 73-75).
RequestShares(k) == RequestsHas(k)

\* request(key, task, { timeout }) (lines 68-97); kind is what task() does.
DedupRequest(k, kind, tm) ==
    /\ IF k = ""
       THEN /\ dedupLast' = [returned |-> Null, invoked |-> FALSE]
            /\ UNCHANGED <<requests, dedupCalls>>
       ELSE IF RequestShares(k)
       THEN /\ dedupLast' = [returned |-> RequestsGet(k), invoked |-> FALSE]
            /\ UNCHANGED <<requests, dedupCalls>>
       ELSE /\ Len(dedupCalls) < MaxDedupCalls
            /\ dedupLast' = [returned |-> Len(dedupCalls) + 1, invoked |-> TRUE]
            /\ IF kind = "throws"
               THEN \* catch (lines 90-94): reject, clear the timer, delete the key
                    /\ dedupCalls' = Append(dedupCalls,
                           [key |-> k, promise |-> "rejected", timer |-> Null,
                            task |-> "threw"])
                    /\ requests' = RequestsDelete(k)
               ELSE /\ dedupCalls' = Append(dedupCalls,
                           [key |-> k, promise |-> "pending",
                            timer |-> TimeoutRequest(tm), task |-> "running"])
                    /\ requests' = RequestsDelete(k)
                                      \cup {[key |-> k, call |-> Len(dedupCalls) + 1]}
    /\ UNCHANGED <<now, notDedup>>

\* The promise of the task of call c settles.
TaskSettles(c, ok) ==
    /\ c \in CallIds
    /\ dedupCalls[c].task = "running"
    /\ dedupCalls' = [dedupCalls EXCEPT ![c].task = IF ok THEN "fulfilled" ELSE "rejected"]
    /\ UNCHANGED <<now, requests, dedupLast, notDedup>>

\* .then(resolve).catch(reject) (lines 84-85)
DedupThen(c) ==
    /\ c \in CallIds
    /\ dedupCalls[c].task \in {"fulfilled", "rejected"}
    /\ dedupCalls' = [dedupCalls EXCEPT
                         ![c].promise = IF @ = "pending" THEN dedupCalls[c].task ELSE @,
                         ![c].task = "finally"]
    /\ UNCHANGED <<now, requests, dedupLast, notDedup>>

\* .finally(() => { clearTimeoutRequest(); this.requests.delete(key) })
\* (lines 86-89)
DedupFinally(c) ==
    /\ c \in CallIds
    /\ dedupCalls[c].task = "finally"
    /\ dedupCalls' = [dedupCalls EXCEPT ![c].timer = Null, ![c].task = "done"]
    /\ requests' = RequestsDelete(dedupCalls[c].key)
    /\ UNCHANGED <<now, dedupLast, notDedup>>

\* The timer of call c fires (lines 127-133): the entry the key has NOW is
\* rejected and deleted.
DedupTimeout(c) ==
    /\ c \in CallIds
    /\ DedupMicrotasks = {}
    /\ dedupCalls[c].timer # Null
    /\ dedupCalls[c].timer <= now
    /\ LET k == dedupCalls[c].key
           timed == [dedupCalls EXCEPT ![c].timer = Null]
       IN IF RequestsHas(k)
          THEN /\ dedupCalls' = [timed EXCEPT ![RequestsGet(k)].promise =
                                    IF @ = "pending" THEN "rejected" ELSE @]
               /\ requests' = RequestsDelete(k)
          ELSE /\ dedupCalls' = timed
               /\ UNCHANGED requests
    /\ UNCHANGED <<now, dedupLast, notDedup>>

\* clearAllRequests(reason) (lines 50-58), reason a non-empty string
ClearAllRequests ==
    /\ requests # {}
    /\ dedupCalls' = [c \in CallIds |->
                         IF (\E r \in requests : r.call = c)
                                /\ dedupCalls[c].promise = "pending"
                         THEN [dedupCalls[c] EXCEPT !.promise = "rejected"]
                         ELSE dedupCalls[c]]
    /\ requests' = {}
    /\ UNCHANGED <<now, dedupLast, notDedup>>

DedupDeadlines == {dedupCalls[c].timer : c \in {d \in CallIds : dedupCalls[d].timer # Null}}

\* Time passes to the next timer while the event loop is idle.
DedupTick ==
    /\ DedupMicrotasks = {}
    /\ \A t \in DedupDeadlines : t > now
    /\ \E t \in DedupDeadlines :
          /\ \A u \in DedupDeadlines : t <= u
          /\ now' = t
    /\ UNCHANGED <<dedup, notDedup>>

NextDedup ==
    \/ \E k \in DedupKeys, kind \in TaskKinds, tm \in DedupTimeoutInputs :
          DedupRequest(k, kind, tm)
    \/ \E c \in 1..MaxDedupCalls, ok \in BOOLEAN : TaskSettles(c, ok)
    \/ \E c \in 1..MaxDedupCalls : DedupThen(c)
    \/ \E c \in 1..MaxDedupCalls : DedupFinally(c)
    \/ \E c \in 1..MaxDedupCalls : DedupTimeout(c)
    \/ ClearAllRequests
    \/ DedupTick

\* A deduplicator, and a limiter that is not used.
InitDedup == InitWith({1})

SpecDedup == InitDedup /\ [][NextDedup]_vars

\* ---- Gate (src/unnamed/part_001) -------------------------------------------
notGate == <<limiter, locker, dedup, readiness, cache>>

\* resolve() or reject() of a promise: no effect once it is settled.
Settle(st, to) == IF st = "pending" THEN to ELSE st

\* this._pendingResolve?.() and this._pendingReject?.()
SettlePending(promises, pending, to) ==
    IF pending = Null THEN promises
    ELSE [promises EXCEPT ![pending] = Settle(@, to)]

\* open(resolvePending = true) (lines 32-40), with reset() (lines 101-106)
GateOpen(resolvePending) ==
    /\ IF gateIsOpen # TRUE
       THEN /\ gateIsOpen' = TRUE
            /\ gatePromises' = IF resolvePending
                               THEN SettlePending(gatePromises, gatePendingPromise,
                                                  "fulfilled")
                               ELSE gatePromises
            /\ gatePendingPromise' = Null
            /\ gateWaitingCount' = 0
       ELSE UNCHANGED <<gateIsOpen, gatePromises, gatePendingPromise, gateWaitingCount>>
    /\ gateLast' = IF resolvePending THEN "open(true)" ELSE "open(false)"
    /\ UNCHANGED <<now, gateCalls, notGate>>

\* close(rejectPending = false) (lines 48-56), with reset()
GateClose(rejectPending) ==
    /\ IF gateIsOpen # FALSE
       THEN /\ gateIsOpen' = FALSE
            /\ gatePromises' = IF rejectPending
                               THEN SettlePending(gatePromises, gatePendingPromise,
                                                  "rejected")
                               ELSE gatePromises
            /\ gatePendingPromise' = Null
            /\ gateWaitingCount' = 0
       ELSE UNCHANGED <<gateIsOpen, gatePromises, gatePendingPromise, gateWaitingCount>>
    /\ gateLast' = IF rejectPending THEN "close(true)" ELSE "close(false)"
    /\ UNCHANGED <<now, gateCalls, notGate>>

\* enterOrWait() (lines 65-77)
EnterOrWait ==
    /\ Len(gateCalls) < MaxGateCalls
    /\ IF gateIsOpen = TRUE
       THEN /\ gateCalls' = Append(gateCalls, Null)
            /\ UNCHANGED <<gateWaitingCount, gatePendingPromise, gatePromises>>
       ELSE /\ gateWaitingCount' = gateWaitingCount + 1
            /\ IF gatePendingPromise = Null
               THEN /\ gatePromises' = Append(gatePromises, "pending")
                    /\ gatePendingPromise' = Len(gatePromises) + 1
               ELSE UNCHANGED <<gatePromises, gatePendingPromise>>
            /\ gateCalls' = Append(gateCalls, gatePendingPromise')
    /\ gateLast' = "enterOrWait"
    /\ UNCHANGED <<now, gateIsOpen, notGate>>

NextGate ==
    \/ \E resolvePending \in BOOLEAN : GateOpen(resolvePending)
    \/ \E rejectPending \in BOOLEAN : GateClose(rejectPending)
    \/ EnterOrWait

\* A Gate, and a limiter that is not used.
InitGate == InitWith({1})

SpecGate == InitGate /\ [][NextGate]_vars

\* ---- Readiness (src/src/classes/readiness.class.ts) ------------------------
notReadiness == <<limiter, locker, dedup, gate, cache>>

\* A setReady that resolves nothing.
ReadinessResolveNothing(promises, pending) == promises

\* if (this._pendingResolve) { this._pendingResolve() } (lines 25-27)
ReadinessResolve(promises, pending) == SettlePending(promises, pending, "fulfilled")

\* setReady() (lines 22-32)
SetReady ==
    /\ readyIsReady \/ readySetCount < MaxReadySets
    /\ IF readyIsReady # TRUE
       THEN /\ readyIsReady' = TRUE
            /\ readyPromises' = ReadinessResolve(readyPromises, readyPendingPromise)
            /\ readyPendingPromise' = Null
            /\ readySetCount' = readySetCount + 1
       ELSE UNCHANGED <<readyIsReady, readyPromises, readyPendingPromise, readySetCount>>
    /\ UNCHANGED <<now, readyCalls, notReadiness>>

\* setNotReady(rejectPending = false) (lines 41-51)
SetNotReady(rejectPending) ==
    /\ IF readyIsReady # FALSE
       THEN /\ readyIsReady' = FALSE
            /\ readyPromises' = IF rejectPending
                                THEN SettlePending(readyPromises, readyPendingPromise,
                                                   "rejected")
                                ELSE readyPromises
            /\ readyPendingPromise' = Null
       ELSE UNCHANGED <<readyIsReady, readyPromises, readyPendingPromise>>
    /\ UNCHANGED <<now, readyCalls, readySetCount, notReadiness>>

\* isReady() (lines 60-71)
IsReady ==
    /\ Len(readyCalls) < MaxReadyCalls
    /\ IF readyIsReady = TRUE
       THEN /\ readyCalls' = Append(readyCalls,
                                [returned |-> Null, ready |-> TRUE, sets |-> readySetCount])
            /\ UNCHANGED <<readyPendingPromise, readyPromises>>
       ELSE /\ IF readyPendingPromise = Null
               THEN /\ readyPromises' = Append(readyPromises, "pending")
                    /\ readyPendingPromise' = Len(readyPromises) + 1
               ELSE UNCHANGED <<readyPromises, readyPendingPromise>>
            /\ readyCalls' = Append(readyCalls,
                                [returned |-> readyPendingPromise', ready |-> FALSE,
                                 sets |-> readySetCount])
    /\ UNCHANGED <<now, readyIsReady, readySetCount, notReadiness>>

NextReadiness ==
    \/ SetReady
    \/ \E rejectPending \in BOOLEAN : SetNotReady(rejectPending)
    \/ IsReady

\* A Readiness, and a limiter that is not used.
InitReadiness == InitWith({1})

SpecReadiness == InitReadiness /\ [][NextReadiness]_vars

\* ---- MemoryCache (src/src/classes/memory-cache.class.ts) -------------------
notCache == <<limiter, locker, dedup, gate, readiness>>

\* this.store.has(key), this.store.get(key), this.store.delete(key)
StoreHas(st, k) == \E i \in 1..Len(st) : st[i].key = k
StoreGet(st, k) == st[CHOOSE i \in 1..Len(st) : st[i].key = k]
StoreDelete(st, k) == SelectSeq(st, LAMBDA e : e.key # k)

Item(k, size) == [key |-> k, size |-> size, expireAt |-> now + MaxItemAgeMilliseconds]

\* calculateSize (lines 262-274) throws for an item larger than the cache.
TooLarge(size) == size > maxCacheSizeBytes

\* evictOldestItems (lines 279-299): the store and the tracked size it leaves,
\* starting from st and cur.
RECURSIVE EvictOldestItems(_, _)
EvictOldestItems(st, cur) ==
    IF cur > maxCacheSizeBytes /\ st # << >>
    THEN EvictOldestItems(Tail(st), cur - Head(st).size)
    ELSE [store |-> st, size |-> cur]

\* The end of add and set: the clone, this.store.set, evictOldestItems.  st and
\* cur are the store and the tracked size when structuredClone is called.
StoreAndEvict(k, size, cloneable, st, cur) ==
    IF cloneable
    THEN LET e == EvictOldestItems(Append(st, Item(k, size)), cur)
         IN /\ store' = e.store
            /\ currentCacheSizeBytes' = e.size
            /\ UNCHANGED cloneFailures
    ELSE \* structuredClone throws (DataCloneError)
         /\ cloneFailures < MaxCloneFailures
         /\ store' = st
         /\ currentCacheSizeBytes' = cur
         /\ cloneFailures' = cloneFailures + 1

\* add(key, data) (lines 68-94); data has a JSON of `size` bytes
CacheAdd(k, size, cloneable) ==
    /\ IF k = "" \/ StoreHas(store, k) \/ TooLarge(size)
       THEN UNCHANGED <<store, currentCacheSizeBytes, cloneFailures>>
       ELSE StoreAndEvict(k, size, cloneable, store, currentCacheSizeBytes + size)
    /\ UNCHANGED <<now, maxCacheSizeBytes, cleanupAt, notCache>>

\* set(key, data) (lines 103-129)
CacheSet(k, size, cloneable) ==
    /\ IF k = "" \/ TooLarge(size)
       THEN UNCHANGED <<store, currentCacheSizeBytes, cloneFailures>>
       ELSE LET oldSize == IF StoreHas(store, k) THEN StoreGet(store, k).size ELSE 0
            IN StoreAndEvict(k, size, cloneable, StoreDelete(store, k),
                             currentCacheSizeBytes - oldSize + size)
    /\ UNCHANGED <<now, maxCacheSizeBytes, cleanupAt, notCache>>

\* get(key) (lines 136-170)
CacheGet(k) ==
    /\ IF k = "" \/ ~StoreHas(store, k)
       THEN UNCHANGED <<store, currentCacheSizeBytes>>
       ELSE IF now > StoreGet(store, k).expireAt
       THEN /\ currentCacheSizeBytes' = currentCacheSizeBytes - StoreGet(store, k).size
            /\ store' = StoreDelete(store, k)
       ELSE /\ store' = Append(StoreDelete(store, k), Item(k, StoreGet(store, k).size))
            /\ UNCHANGED currentCacheSizeBytes
    /\ UNCHANGED <<now, maxCacheSizeBytes, cleanupAt, cloneFailures, notCache>>

\* delete(key) (lines 201-216) on the store st with tracked size cur
Deleted(st, cur, k) ==
    IF StoreHas(st, k)
    THEN [store |-> StoreDelete(st, k), size |-> cur - StoreGet(st, k).size]
    ELSE [store |-> st, size |-> cur]

CacheDelete(k) ==
    /\ store' = Deleted(store, currentCacheSizeBytes, k).store
    /\ currentCacheSizeBytes' = Deleted(store, currentCacheSizeBytes, k).size
    /\ UNCHANGED <<now, maxCacheSizeBytes, cleanupAt, cloneFailures, notCache>>

\* has(key) (lines 177-194): an expired item is deleted
CacheHas(k) ==
    /\ IF StoreHas(store, k) /\ ~(now < StoreGet(store, k).expireAt)
       THEN /\ store' = Deleted(store, currentCacheSizeBytes, k).store
            /\ currentCacheSizeBytes' = Deleted(store, currentCacheSizeBytes, k).size
       ELSE UNCHANGED <<store, currentCacheSizeBytes>>
    /\ UNCHANGED <<now, maxCacheSizeBytes, cleanupAt, cloneFailures, notCache>>

\* The loop of cleanup (lines 231-239): expired items are deleted from the
\* front up to the first one that has not expired.
RECURSIVE CleanedUp(_, _)
CleanedUp(st, cur) ==
    IF st # << >> /\ now > Head(st).expireAt
    THEN CleanedUp(Tail(st), cur - Head(st).size)
    ELSE [store |-> st, size |-> cur]

\* The cleanup timer fires (lines 225-251).
Cleanup ==
    /\ cleanupAt <= now
    /\ store' = CleanedUp(store, currentCacheSizeBytes).store
    /\ currentCacheSizeBytes' = CleanedUp(store, currentCacheSizeBytes).size
    /\ cleanupAt' = now + CleanupMs
    /\ UNCHANGED <<now, maxCacheSizeBytes, cloneFailures, notCache>>

\* Time passes: callers act every CallStep up to the horizon, then the event
\* loop is idle until the cleanup timer.
CacheTick ==
    /\ cleanupAt > now
    /\ now' = IF now < StartTime + CacheHorizon THEN now + CallStep ELSE cleanupAt
    /\ now' <= StartTime + CacheCleanups * CleanupMs
    /\ UNCHANGED <<cache, notCache>>

NextCache ==
    \/ \E k \in CacheKeys, size \in DataSizes, cloneable \in BOOLEAN :
          CacheAdd(k, size, cloneable)
    \/ \E k \in CacheKeys, size \in DataSizes, cloneable \in BOOLEAN :
          CacheSet(k, size, cloneable)
    \/ \E k \in CacheKeys : CacheGet(k)
    \/ \E k \in CacheKeys : CacheHas(k)
    \/ \E k \in CacheKeys : CacheDelete(k)
    \/ Cleanup
    \/ CacheTick

\* A MemoryCache, and a limiter that is not used.
InitCache ==
    /\ LimiterInit({1}) /\ LockerInit({Infinity})
    /\ DedupInit /\ GateInit /\ ReadinessInit /\ CacheInit(CacheSizes)

SpecCache == InitCache /\ [][NextCache]_vars

\* ---- properties -----------------------------------------------------------
Range(q) == {q[k] : k \in 1..Len(q)}
Pos(q, x) == CHOOSE k \in 1..Len(q) : q[k] = x
Before(q, x, y) == x \in Range(q) /\ y \in Range(q) /\ Pos(q, x) < Pos(q, y)
InLanes(id) == id \in Range(requestsHigh) \cup Range(requestsNormal) \cup Range(requestsLow)
Granted == {id \in Ids : grants[id] > 0}
LaneRank(l) == IF l = "high" THEN 1 ELSE IF l = "normal" THEN 2 ELSE 3

\* C1: with requestsPerSecond = N and no rate reduction (this specification has
\* none), as long as no release callback was called and no pruning pass removed
\* a running entry, at most N requestSlot calls have been granted.
C1_AtMostNGranted ==
    (releaseCalls = 0 /\ Granted \subseteq requestsRunning)
        => Cardinality(Granted) <= maxRequestsPerSecond

\* C2: the running set is no larger than the current rate, except between a
\* reduceLimitTemporary call that lowered the rate and the next pruning pass.
C2_RunningWithinRate ==
    prunedSinceReduce => Cardinality(requestsRunning) <= requestsPerSecond

\* C3: strict priority across lanes.  Whenever the scheduler dequeues a request,
\* every request of a higher lane that was waiting before the step, or was pushed
\* by it, has been dequeued before: the higher lanes are empty at that dequeue.
\* The running entries are created in the order of the grants.
Dequeued(id) == id \notin Range(dequeueLog) /\ id \in Range(dequeueLog')
PushedOrWaiting(id) == InLanes(id) \/ (id = nextId /\ nextId' = nextId + 1)
GrantOrder == SelectSeq(dequeueLog, LAMBDA id : promise[id] = "fulfilled")

C3_StrictPriority ==
    [][/\ \A l \in Ids : Dequeued(l) =>
            \A h \in Ids :
                (PushedOrWaiting(h) /\ LaneRank(lane'[h]) < LaneRank(lane'[l]))
                    => Before(dequeueLog', h, l)
       /\ runLog' \o microtasks' = GrantOrder']_vars

\* A high-priority request enqueued after a low-priority one got its running
\* entry first, both having waited for a slot.
C3_Witness ==
    \E l, h \in Ids :
        /\ l < h /\ lane[l] = "low" /\ lane[h] = "high"
        /\ Before(runLog, h, l)
        /\ entry[h].startedAt > StartTime + WindowMs

\* C4: FIFO within a lane.  Of two requests pushed to the same lane and both
\* granted, the one enqueued first got its running entry first.
C4_FifoWithinLane ==
    \A i, j \in Ids :
        (i < j /\ lane[i] = lane[j] /\ i \in Range(runLog) /\ j \in Range(runLog))
            => Before(runLog, i, j)

\* Two requests of one lane were granted after both had waited for a slot.
C4_Witness ==
    \E i, j \in Ids :
        /\ i < j /\ lane[i] = lane[j]
        /\ Before(runLog, i, j)
        /\ entry[i].startedAt > StartTime + WindowMs

\* C5: after requestSlot has failed with 'request timeout', the request is in
\* none of the three lanes.
C5_TimedOutLeavesLane ==
    \A id \in Ids : failed[id] # Null => ~InLanes(id)

\* C6: every requestSlot call settles.  While it waits, its timer is armed for
\* the call time plus timeoutMs, an omitted or 0 timeoutMs meaning 60000 ms;
\* it fails with 'request timeout' at that deadline and not before; and it is
\* eventually granted or failed.
ExpectedDeadline(id) ==
    enqueuedAt[id] + (IF timeoutArg[id] = 0 THEN DefaultTimeoutMs
                      ELSE IF timeoutArg[id] < 1 THEN 1 ELSE timeoutArg[id])

C6_EventuallySettles ==
    /\ [](\A id \in Ids : promise[id] = "pending" =>
              (timeoutHandle[id] = ExpectedDeadline(id) /\ now <= timeoutHandle[id]))
    /\ [][\A id \in Ids : (failed[id] = Null /\ failed'[id] # Null) =>
              now = ExpectedDeadline(id)]_vars
    /\ \A id \in Ids : (promise[id] # "none") ~> (grants[id] > 0 \/ failed[id] # Null)

\* A call with no timeoutMs failed 60000 ms after it was made.
C6_Witness ==
    \E id \in Ids : failed[id] = StartTime + DefaultTimeoutMs

\* C7: a requestSlot call has one outcome: at most one running entry (and one
\* release callback) per call, and no call is both granted and failed.
C7_OneOutcome ==
    \A id \in Ids :
        /\ grants[id] <= 1
        /\ ~(grants[id] > 0 /\ failed[id] # Null)
        /\ (promise[id] = "fulfilled" => failed[id] = Null)

\* The scheduler has dequeued and resolved a request that had timed out.
C7_Witness ==
    \E id \in Ids : failed[id] # Null /\ id \in Range(dequeueLog) /\ grants[id] = 0

\* C8: once a release callback has set endedAt, later calls leave it unchanged.
C8_EndedAtSetOnce ==
    [][\A id \in Ids :
          entry[id].endedAt # Null => entry'[id].endedAt = entry[id].endedAt]_vars

\* C9: a reduceLimitTemporary call (with a valid duration) made less than
\* 1000 ms after a call that took effect.
CallWithinDebounce ==
    /\ reduceCalls' = reduceCalls + 1
    /\ lastReduce' # "error"
    /\ reduceLimitTimestamp # 0
    /\ now - reduceLimitTimestamp < DebounceMs

\* C9, as claimed: after such a call the rate equals its value after the call
\* that took effect.
C9_RateAsAfterFirstCall ==
    [][CallWithinDebounce => requestsPerSecond' = rateAfterReduce]_vars

\* C9, amended: such a call leaves the rate unchanged; the rate is its value
\* after the call that took effect while the restoration timer is pending, and
\* maxRequestsPerSecond once that timer has fired.
C9_DebouncedCallKeepsRate ==
    [][CallWithinDebounce =>
          /\ requestsPerSecond' = requestsPerSecond
          /\ requestsPerSecond' = (IF reduceLimitTimeout # Null THEN rateAfterReduce
                                   ELSE maxRequestsPerSecond)]_vars

\* A second call, 500 ms after the one that reduced the rate, was skipped.
C9_Witness ==
    /\ lastReduce = "skipped"
    /\ now > reduceLimitTimestamp
    /\ reduceLimitTimeout # Null
    /\ requestsPerSecond = ReducedRate(maxRequestsPerSecond, maxRequestsPerSecond)
    /\ requestsPerSecond < maxRequestsPerSecond

\* C10: once the duration of the last effective reduction has elapsed, the rate
\* is maxRequestsPerSecond again, however many reductions were applied before.
C10_RestoredAfterDuration ==
    (restoreAt # 0 /\ (now > restoreAt \/ (now = restoreAt /\ reduceLimitTimeout = Null)))
        => requestsPerSecond = maxRequestsPerSecond

\* Two reductions were stacked (3 -> 2 -> 1) and the rate is 3 again.
C10_Witness ==
    /\ maxRequestsPerSecond = 3
    /\ rateAfterReduce = 1
    /\ reduceLimitTimeout = Null
    /\ now >= restoreAt
    /\ requestsPerSecond = 3

\* C11, as claimed: an effective reduction from requestsPerSecond =
\* maxRequestsPerSecond = N leaves the rate at
\* max(1, N - max(1, floor(N * 25 / 100))).
C11_QuarterReduction ==
    [][(reduceCalls' = reduceCalls + 1 /\ lastReduce' = "applied"
            /\ requestsPerSecond = maxRequestsPerSecond)
        => requestsPerSecond' =
              Max(1, maxRequestsPerSecond
                       - Max(1, (maxRequestsPerSecond * 25) \div 100))]_vars

\* C12: the rate stays between 1 and maxRequestsPerSecond, whatever
\* reduceLimitTemporary calls and restorations took place.
C12_RateWithinBounds ==
    1 <= requestsPerSecond /\ requestsPerSecond <= maxRequestsPerSecond

\* A reduction took effect at a rate that the reduction number would have
\* brought below 1.
C12_Witness ==
    /\ lastReduce = "applied"
    /\ maxRequestsPerSecond - ReductionNumber(maxRequestsPerSecond) < 1
    /\ requestsPerSecond = 1

\* C16: reduceLimitTemporary(durationMs) with durationMs <= 0 throws, and the
\* rate, the timestamp of the last reduction and the restoration timer are as
\* they were before the call.
C16_InvalidDurationThrows ==
    [][(reduceCalls' = reduceCalls + 1 /\ lastDuration' <= 0)
        => /\ lastReduce' = "error"
           /\ requestsPerSecond' = requestsPerSecond
           /\ reduceLimitTimestamp' = reduceLimitTimestamp
           /\ reduceLimitTimeout' = reduceLimitTimeout]_vars

\* A call with a negative duration threw while a reduction was in effect and
\* its restoration timer pending, more than 1000 ms after that reduction.
C16_Witness ==
    /\ lastReduce = "error"
    /\ lastDuration < 0
    /\ reduceLimitTimeout # Null
    /\ requestsPerSecond < maxRequestsPerSecond
    /\ now - reduceLimitTimestamp >= DebounceMs

\* C17: no stranded enqueue.  Whenever control is back in the event loop and a
\* lane holds a request, the scheduler loop is active (the flag is set and the
\* loop is in its 50 ms sleep) or a restart of it is scheduled; the flag is set
\* only while a loop is active.
C17_NoStrandedEnqueue ==
    /\ (Len(requestsHigh) + Len(requestsNormal) + Len(requestsLow) > 0)
          => ((isProcessing /\ loopWake # Null) \/ immediates > 0)
    /\ isProcessing => loopWake # Null

\* A request was enqueued after the loop had exited and before its scheduled
\* restart ran; it restarted the loop, which now sleeps with the request waiting.
C17_Witness ==
    /\ immediates > 0
    /\ isProcessing /\ loopWake # Null
    /\ Len(requestsHigh) + Len(requestsNormal) + Len(requestsLow) > 0
    /\ Granted # {}

\* C18: at most one processQueue call is between setting isProcessing and
\* resetting it, and the flag is set exactly while one is.
C18_OneLoop ==
    /\ activeLoops <= 1
    /\ isProcessing <=> activeLoops = 1

\* processQueue was called again, by a second requestSlot, while the loop was
\* sleeping: two requests wait and one loop is active.
C18_Witness ==
    /\ activeLoops = 1
    /\ Len(requestsHigh) + Len(requestsNormal) + Len(requestsLow) >= 2
    /\ immediates = 0

\* C15: a requestSlot call whose priority is none of 'high', 'normal', 'low'
\* (nor omitted) fails and enqueues nothing: the three lanes are as before the
\* call and the scheduler has not taken the request.
ValidPriority(p) == p \in {"", "high", "normal", "low"}

C15_InvalidPriorityRejected ==
    [][\A id \in Ids :
          (id = nextId /\ nextId' = nextId + 1 /\ ~ValidPriority(priorityArg'[id]))
              => /\ failed'[id] # Null
                 /\ requestsHigh' = requestsHigh
                 /\ requestsNormal' = requestsNormal
                 /\ requestsLow' = requestsLow
                 /\ id \notin Range(dequeueLog')]_vars

\* C13: stuck-slot reclamation.  A running entry whose release callback was
\* never called and whose startedAt is more than 65000 ms old does not survive a
\* pruning pass (one ran at this instant if the loop has just gone to sleep or
\* has just dequeued), and in the step that removes such an entry a request
\* that was waiting is granted.
StuckEntry(id, t) == entry[id].endedAt = Null /\ entry[id].startedAt < t - StuckMs
Waiting(id) == InLanes(id) /\ promise[id] = "pending"

C13_StuckSlotReclaimed ==
    [][/\ (loopWake' = now' + PollMs \/ dequeueLog' # dequeueLog)
            => \A id \in requestsRunning' : released'[id] > 0 \/ ~StuckEntry(id, now)'
       /\ ((\E id \in requestsRunning \ requestsRunning' : released[id] = 0)
              /\ (\E w \in Ids : Waiting(w)))
            => \E w \in Ids : Waiting(w) /\ promise'[w] = "fulfilled"]_vars

\* C14: sliding window.  A running entry whose release callback has been called
\* is not removed from the running set before 1000 ms have passed since its
\* endedAt, whatever its startedAt.
C14_ReleasedCountsForASecond ==
    [][\A id \in requestsRunning \ requestsRunning' :
          entry[id].endedAt # Null => now' - entry[id].endedAt >= WindowMs]_vars

\* C20: Locker mutual exclusion.  At most one withLock call is in its critical
\* section (fn started, release not yet called), whatever acquire timeouts
\* fired and whatever calls were rejected for the queue limit.
InCritical == {c \in Callers : lockPc[c] = "critical"}

C20_LockerMutualExclusion == Cardinality(InCritical) <= 1

\* One call is in its critical section after another has left it, while a
\* third has failed with 'Locker acquire timeout' or 'Locker queue limit reached'.
C20_Witness ==
    \E a, b, c \in Callers :
        /\ lockPc[a] = "critical" /\ lockPrev[a] # Null
        /\ lockPc[b] = "done"
        /\ lockPc[c] \in {"timeout", "full"}

\* C21: the timeout of a withLock call applies to that call's own wait.  A call
\* fails with 'Locker acquire timeout' only if it had a timeoutMs and that time
\* has passed since it was called, and a call with a timeoutMs is not left
\* waiting for the lock once that time has passed.
C21_TimeoutIsTheCallersOwn ==
    \A c \in Callers :
        /\ lockPc[c] = "timeout"
              => (lockArg[c] # Undefined /\ now >= lockCalledAt[c] + lockArg[c])
        /\ (lockPc[c] = "acquiring" /\ lockArg[c] # Undefined)
              => now <= lockCalledAt[c] + TimerDelay(lockArg[c])

\* C26: each grant is accounted before the next capacity computation.  The
\* requests granted in one step are no more than the slots that are free when
\* the requests already granted (their continuation still queued) are counted
\* with the running entries.
C26_GrantAccountedAtOnce ==
    [][Cardinality({id \in Ids : promise[id] # "fulfilled" /\ promise'[id] = "fulfilled"})
          <= Max(0, requestsPerSecond
                      - Cardinality(PruneRunning(requestsRunning, entry, now)
                                      \cup Range(microtasks)))]_vars

\* C27: the grant cancels the timeout.  The timer of a granted request is armed
\* only while the continuation that clears it is queued as a microtask, which
\* runs before any timer; and a granted request has not failed.
C27_GrantCancelsTimeout ==
    \A id \in Ids :
        promise[id] = "fulfilled"
            => /\ failed[id] = Null
               /\ timeoutHandle[id] # Null => id \in Range(microtasks)

\* A request was granted after it had waited, its timer still armed and its
\* continuation queued.
C27_Witness ==
    \E id \in Ids :
        /\ promise[id] = "fulfilled"
        /\ timeoutHandle[id] # Null
        /\ id \in Range(microtasks)
        /\ enqueuedAt[id] < now

\* C28: a release callback sets endedAt of its own entry and nothing else: the
\* running set, the lanes, the rate and the scheduler flag are unchanged, and so
\* are the other entries.  An entry leaves the running set only in a step of
\* the scheduler, being one that getAvailableSlots prunes.
C28_ReleaseOnlySetsEndedAt ==
    [][/\ \A id \in Ids : released'[id] # released[id] =>
              /\ requestsRunning' = requestsRunning
              /\ requestsHigh' = requestsHigh
              /\ requestsNormal' = requestsNormal
              /\ requestsLow' = requestsLow
              /\ requestsPerSecond' = requestsPerSecond
              /\ isProcessing' = isProcessing
              /\ entry'[id].startedAt = entry[id].startedAt
              /\ entry'[id].endedAt = now
              /\ \A o \in Ids \ {id} : entry'[o] = entry[o]
       /\ \A id \in requestsRunning \ requestsRunning' :
              /\ released' = released
              /\ Prunable(entry[id], now)]_vars

\* A released entry was pruned by the scheduler and its callback called again.
C28_Witness ==
    \E id \in Ids :
        /\ released[id] = 2
        /\ grants[id] > 0
        /\ id \notin requestsRunning

\* C29: whenever no restoration timer is pending, the rate is
\* maxRequestsPerSecond.
C29_FullRateWhenNoTimer ==
    reduceLimitTimeout = Null => requestsPerSecond = maxRequestsPerSecond

\* The restoration of a stacked reduction has fired, and a later call was
\* debounced (durations below 1000 ms): no timer is pending, the rate is full.
C29_Witness ==
    /\ reduceLimitTimeout = Null
    /\ lastReduce = "skipped"
    /\ rateAfterReduce # 0 /\ rateAfterReduce < maxRequestsPerSecond
    /\ requestsPerSecond = maxRequestsPerSecond

\* C30, as claimed, for the rates at which a quarter and a tenth of the rate
\* both give a reduction of 1: while a restoration timer is pending, the rate is
\* max(1, maxRequestsPerSecond - 1), however many reductions took effect.
C30_ReductionsDoNotStack ==
    (reduceLimitTimeout # Null /\ maxRequestsPerSecond <= 7)
        => requestsPerSecond =
              Max(1, maxRequestsPerSecond
                       - Max(1, (maxRequestsPerSecond * 25) \div 100))

\* C30, amended: reductions stack.  While a restoration timer is pending, the
\* rate is maxRequestsPerSecond lowered once for each reduction that took effect
\* since the last restoration, and not below 1; the pending timer is the one of
\* the last of them.
C30_ReductionsStack ==
    reduceLimitTimeout # Null
        => /\ stacked >= 1
           /\ requestsPerSecond =
                 Max(1, maxRequestsPerSecond
                          - stacked * ReductionNumber(maxRequestsPerSecond))
           /\ reduceLimitTimeout = restoreAt

\* Two reductions took effect before any restoration: 20 -> 18 -> 16.
C30_Witness ==
    /\ reduceLimitTimeout # Null
    /\ stacked = 2
    /\ maxRequestsPerSecond = 20
    /\ requestsPerSecond = 16

\* C22: ApiCallDeduplicator: at most one task per key is running at any time
\* (a request for a key whose task is still running shares that call and
\* starts no second task).
TaskRunning(c) == dedupCalls[c].task = "running"
C22_OneTaskPerKey ==
    \A c, d \in CallIds :
        (TaskRunning(c) /\ TaskRunning(d) /\ dedupCalls[c].key = dedupCalls[d].key)
            => c = d

\* C23: Gate: a promise enterOrWait returned while the gate was closed is
\* resolved when the gate is next opened, so no waiter is pending while the
\* gate is open.
GateWaiting(c) == gateCalls[c] # Null /\ gatePromises[gateCalls[c]] = "pending"
C23_NoWaiterPendingWhileOpen ==
    gateIsOpen => \A c \in 1..Len(gateCalls) : ~GateWaiting(c)

\* C24: Readiness: an isReady() call made while ready gets a resolved promise;
\* one made while not ready gets a promise that is pending until the next
\* setReady takes effect, which resolves it for every such caller; it is never
\* rejected, and a call made after setNotReady waits for the following setReady.
C24_WaitsForNextSetReady ==
    \A c \in 1..Len(readyCalls) :
        IF readyCalls[c].ready
        THEN readyCalls[c].returned = Null
        ELSE /\ readyCalls[c].returned # Null
             /\ readyPromises[readyCalls[c].returned] =
                    IF readySetCount > readyCalls[c].sets THEN "fulfilled" ELSE "pending"

\* Two callers that waited after a setNotReady were released by the second
\* setReady; an earlier caller had been released by the first one.
C24_Witness ==
    /\ readyIsReady
    /\ readySetCount = 2
    /\ \E b, c, d \in 1..Len(readyCalls) :
          /\ c # d
          /\ ~readyCalls[b].ready /\ readyCalls[b].sets = 0
          /\ ~readyCalls[c].ready /\ readyCalls[c].sets = 1
          /\ ~readyCalls[d].ready /\ readyCalls[d].sets = 1
          /\ readyPromises[readyCalls[c].returned] = "fulfilled"
          /\ readyPromises[readyCalls[d].returned] = "fulfilled"

\* C25: MemoryCache: when add(key, data) or set(key, data) returns, the
\* tracked size is at most maxCacheSizeBytes, what was evicted is a front part
\* of the store in least-recently-used order, and the entry just written is
\* in the store, as its newest entry.
AddReturns(k, size) ==
    k # "" /\ ~StoreHas(store, k) /\ ~TooLarge(size) /\ CacheAdd(k, size, TRUE)
SetReturns(k, size) ==
    k # "" /\ ~TooLarge(size) /\ CacheSet(k, size, TRUE)
WrittenWithinLimit(k, size) ==
    LET kept == StoreDelete(store, k)
    IN /\ currentCacheSizeBytes' <= maxCacheSizeBytes
       /\ \E n \in 0..Len(kept) :
             store' = SubSeq(kept, n + 1, Len(kept)) \o <<Item(k, size)>>
C25_EvictsOldestWithinLimit ==
    [][\A k \in CacheKeys, size \in DataSizes :
          (AddReturns(k, size) \/ SetReturns(k, size)) => WrittenWithinLimit(k, size)]_vars

\* C31: a reduceLimitTemporary call made less than 1000 ms after the last
\* reduction that took effect changes nothing: the timestamp of that reduction,
\* the restoration timer and the rate stay as they are; and a call made 1000 ms
\* or more after that reduction takes effect, whatever calls were skipped in
\* between.
C31_DebouncedCallIsNoOp ==
    [][/\ CallWithinDebounce =>
             /\ lastReduce' = "skipped"
             /\ reduceLimitTimestamp' = reduceLimitTimestamp
             /\ reduceLimitTimeout' = reduceLimitTimeout
             /\ restoreAt' = restoreAt
             /\ requestsPerSecond' = requestsPerSecond
       /\ (/\ reduceCalls' = reduceCalls + 1
           /\ lastReduce' # "error"
           /\ now - reduceLimitTimestamp >= DebounceMs)
             => (lastReduce' = "applied" /\ reduceLimitTimestamp' = now)]_vars

\* A call was skipped 500 ms after the only reduction, whose timer is still
\* due at the time that reduction set.
C31_Witness ==
    /\ lastReduce = "skipped"
    /\ reduceCalls = 2
    /\ stacked = 1
    /\ now = reduceLimitTimestamp + CallStep
    /\ reduceLimitTimeout = restoreAt
    /\ restoreAt > now

\* C32: a request that failed with its timeout never gets a running entry, not
\* even when the scheduler later takes its record out of a lane; and whenever
\* the scheduler loop stops with a live request still waiting, the running
\* set (which holds granted requests only) is as large as the rate allows.
TimedOut(id) == failed[id] # Null
LiveWaiting(id) == promise[id] = "pending" /\ InLanes(id)
LoopRan == dequeueLog' # dequeueLog \/ loopWake' # loopWake
C32_TimedOutTakesNoSlot ==
    [][/\ \A id \in Ids : TimedOut(id)' =>
             /\ TimedOut(id) => failed'[id] = failed[id]
             /\ grants'[id] = 0
             /\ entry'[id].startedAt = Null
             /\ id \notin requestsRunning'
             /\ id \notin Range(microtasks')
       /\ (LoopRan /\ \E id \in Ids : LiveWaiting(id)')
             => Cardinality(PruneRunning(requestsRunning', entry', now))
                    >= requestsPerSecond']_vars

\* The scheduler took the record of a timed-out request out of its lane and,
\* in the same run, granted a live request that was queued behind it.
C32_Witness ==
    \E dead, live \in Ids :
        /\ TimedOut(dead) /\ ~InLanes(dead)
        /\ grants[live] > 0
        /\ lane[dead] = lane[live]
        /\ Before(dequeueLog, dead, live)
        /\ entry[live].startedAt > failed[dead]

\* C33: once every requestSlot call has settled, the scheduler loop eventually
\* clears isProcessing with no polling sleep pending, and from then on it
\* neither sets the flag nor sleeps until a request is enqueued.
AllSettled == \A id \in Ids : promise[id] # "pending"
LoopStopped == ~isProcessing /\ loopWake = Null
C33_LoopTerminates ==
    /\ AllSettled ~> LoopStopped
    /\ [][(LoopStopped /\ nextId' = nextId) => LoopStopped']_vars

\* The loop slept until the slot of a request that was never released was
\* reclaimed, took the record of a timed-out request out of its lane and
\* stopped.
C33_Witness ==
    /\ LoopStopped
    /\ now > StartTime + StuckMs
    /\ \E id \in Ids : TimedOut(id) /\ id \in Range(dequeueLog)

\* C34: the Locker stays usable after a timeout: a withLock call does not wait
\* for ever while no critical section is executing.  When a call waits for the
\* lock, some call is in its critical section, or the continuation of a call
\* is about to run, or a timer that can still fail a waiting call is armed.
LockWaiting == {c \in Callers : lockPc[c] = "acquiring"}
C34_NoWaiterWithoutHolder ==
    LockWaiting # {} =>
        \/ InCritical # {}
        \/ LockerMicrotasks # {}
        \/ \E c \in Callers : lockTimer[c] # Null

\* C35: the queue limit of the Locker counts waiters only.  A withLock call
\* fails with 'Locker queue limit reached' exactly when the callers that are
\* waiting for the lock (not the holder, not the calls that have failed) are at
\* least maxQueueLength, and a call that fails so leaves the lock as it was.
LockWaiters == {c \in Callers : lockPc[c] = "acquiring" /\ PrevState(c) = "pending"}
C35_LimitCountsWaiters ==
    [][\A c \in Callers : (lockPc[c] = "idle" /\ lockPc'[c] # "idle") =>
          /\ lockPc'[c] = "full" <=> Cardinality(LockWaiters) >= maxQueueLength
          /\ lockPc'[c] = "full" =>
                (/\ lock' = lock /\ queue' = queue
                 /\ lockNext' = lockNext /\ lockTimer' = lockTimer)]_vars

\* C36: ApiCallDeduplicator keeps a request registered for its whole life: as
\* long as the promise of a call is pending, the key has that call as its
\* entry, whatever happens to earlier calls for the key.
C36_PendingStaysRegistered ==
    \A c \in CallIds :
        dedupCalls[c].promise = "pending"
            => [key |-> dedupCalls[c].key, call |-> c] \in requests

\* C37: Gate/Door: right after close(true), no promise enterOrWait returned is
\* pending: close(true) rejected the promise of every caller that was waiting,
\* whatever calls of open, close and enterOrWait came before.
C37_CloseRejectsWaiters ==
    gateLast = "close(true)" => \A c \in 1..Len(gateCalls) : ~GateWaiting(c)

\* The sum of the size fields of the entries of a store.
RECURSIVE SumSizes(_)
SumSizes(st) == IF st = << >> THEN 0 ELSE Head(st).size + SumSizes(Tail(st))

\* C38: MemoryCache: in every state, after add, set, get, has, delete,
\* eviction and cleanup, the calls that throw included, currentCacheSizeBytes
\* is the sum of the sizes of the entries in the store.
C38_SizeIsSumOfStore == currentCacheSizeBytes = SumSizes(store)

====
